---- MODULE Spec2Model ----
(***************************************************************************)
(* A model of unspotify: the paged playlist iterators                      *)
(* (UnspotifyPlaylist in unspotify.py, _SpotifyPlaylistIterator in         *)
(* src/spotify.py), the release-date normalizers, the from_url             *)
(* constructors and the download driver UnspotifyYTDownloader with its     *)
(* background tagging threads.                                             *)
(*                                                                         *)
(* Python sequences are 0-based, TLA+ sequences 1-based: the Python        *)
(* element s[i] is written s[i + 1] here.  A remote playlist of `total`    *)
(* items is the list of item indices 0 .. total-1; item k carries track k. *)
(***************************************************************************)
EXTENDS Integers, Sequences, FiniteSets, TLC

VARIABLES
    \* ---- playlist iteration ----
    variant,                 \* which class is exercised
    total,                   \* number of items of the remote playlist
    playlist_current_pos,    \* UnspotifyPlaylist._current_pos / _SpotifyPlaylistIterator._position
    playlist_current_tracks, \* ._current_tracks: the items of the last page fetched
    result,                  \* outcome of the last __next__ call
    produced,                \* the elements returned so far, in order
    requests,                \* the offsets of the page requests issued so far, in order
    stops,                   \* number of StopIteration signals so far
    calls,                   \* number of __next__ calls so far
    \* ---- track metadata normalization ----
    track,                   \* the raw track record handed to the normalizer
    info,                    \* the TrackInfo built from it, or the exception raised
    \* ---- construction from a URL ----
    playlist_url,            \* the argument of from_url
    playlist_id,             \* the identifier from_url passes to the constructor
    \* ---- the download driver ----
    dl_current_pos,          \* UnspotifyYTDownloader._current_pos, the cursor
    dl_current_tracks,       \* UnspotifyYTDownloader._current_tracks
    dl_pc,                   \* where download_playlist stands: "idle", "downloading", "raised"
    queue,                   \* the queries (by index in the submitted list) the backend still holds
    progress,                \* the progress lines printed by the completion callback
    threads,                 \* the background units spawned, in spawn order
    files,                   \* the files the backend has written, by the path it reported
    delivered,               \* the paths the backend has handed to the callback, in order
    lists,                   \* the materialized list of every download_playlist call, in order
    unanswered               \* TRUE once some query has ended without a callback

iterVars == <<variant, total, playlist_current_pos, playlist_current_tracks,
              result, produced, requests, stops, calls>>

normVars == <<track, info>>

urlVars == <<playlist_url, playlist_id>>

dlVars == <<dl_current_pos, dl_current_tracks, dl_pc, queue, progress, threads,
            files, delivered, lists, unanswered>>

vars == <<iterVars, normVars, urlVars, dlVars>>

----------------------------------------------------------------------------
(* Bounds *)

MaxTracks == 250
MaxCalls == 310
FirstYear == 2023
NumYears == 2
MaxUrlLen == 4
MaxItems == 3
MaxDownloads == 2
MaxThreads == 2

----------------------------------------------------------------------------
(* The remote catalog service *)

PageSize == 100

Min(a, b) == IF a < b THEN a ELSE b

Max(a, b) == IF a > b THEN a ELSE b

\* sp.playlist_tracks(playlist_id, limit, offset)["items"]: the items
\* offset .. offset+limit-1 of the playlist, fewer (or none) at its end.
playlist_tracks(n, limit, offset) ==
    [k \in 1..Min(limit, Max(0, n - offset)) |-> offset + (k - 1)]

----------------------------------------------------------------------------
(* UnspotifyPlaylist.__next__ (unspotify.py) *)

UnspotifyPlaylist_fetches_mut(pos) == (pos + 1) % PageSize = 0

\* `if self._current_pos % 100 == 0`
UnspotifyPlaylist_fetches(pos) == pos % PageSize = 0

\* `offset=100 * (self._current_pos // 100)`
UnspotifyPlaylist_offset(pos) == PageSize * (pos \div PageSize)

\* `if self._current_pos % 100 >= len(self._current_tracks): raise StopIteration`
\* (pos is the position after the increment)
UnspotifyPlaylist_stops(pos, tracks) == pos % PageSize >= Len(tracks)

\* `self._current_tracks[self._current_pos % 100]["track"]`
UnspotifyPlaylist_current(pos, tracks) == tracks[(pos % PageSize) + 1]

\* One call of __next__ from position pos with page tracks on a playlist of
\* n items: the new fields, the request issued (if any) and the outcome.
UnspotifyPlaylist_step(n, pos, tracks) ==
    LET fetch == UnspotifyPlaylist_fetches(pos)
        offset == UnspotifyPlaylist_offset(pos)
        page == IF fetch THEN playlist_tracks(n, PageSize, offset) ELSE tracks
        newpos == pos + 1
        stop == UnspotifyPlaylist_stops(newpos, page)
    IN  [pos |-> newpos,
         tracks |-> page,
         request |-> IF fetch THEN <<offset>> ELSE <<>>,
         stop |-> stop,
         value |-> IF stop THEN -1 ELSE UnspotifyPlaylist_current(newpos, page)]

UnspotifyPlaylist_next ==
    /\ variant = "UnspotifyPlaylist"
    /\ calls < MaxCalls
    /\ LET r == UnspotifyPlaylist_step(total, playlist_current_pos, playlist_current_tracks)
       IN  /\ playlist_current_pos' = r.pos
           /\ playlist_current_tracks' = r.tracks
           /\ requests' = requests \o r.request
           /\ result' = IF r.stop THEN "StopIteration" ELSE "value"
           /\ produced' = IF r.stop THEN produced ELSE Append(produced, r.value)
           /\ stops' = IF r.stop THEN stops + 1 ELSE stops
    /\ calls' = calls + 1
    /\ UNCHANGED <<variant, total>>

----------------------------------------------------------------------------
(* _SpotifyPlaylistIterator.__next__ (src/spotify.py) *)

\* `if self._position % 100 == 0`
SpotifyPlaylistIterator_fetches(pos) == pos % PageSize = 0

\* `offset=100 * (self._position // 100)`
SpotifyPlaylistIterator_offset(pos) == PageSize * (pos \div PageSize)

\* `if self._position % 100 >= len(self._current_tracks): raise StopIteration`
SpotifyPlaylistIterator_stops(pos, tracks) == pos % PageSize >= Len(tracks)

\* `self._current_tracks[self._position % 100]["track"]`
SpotifyPlaylistIterator_current(pos, tracks) == tracks[(pos % PageSize) + 1]

SpotifyPlaylistIterator_step(n, pos, tracks) ==
    LET fetch == SpotifyPlaylistIterator_fetches(pos)
        offset == SpotifyPlaylistIterator_offset(pos)
        page == IF fetch THEN playlist_tracks(n, PageSize, offset) ELSE tracks
        newpos == pos + 1
        stop == SpotifyPlaylistIterator_stops(newpos, page)
    IN  [pos |-> newpos,
         tracks |-> page,
         request |-> IF fetch THEN <<offset>> ELSE <<>>,
         stop |-> stop,
         value |-> IF stop THEN -1 ELSE SpotifyPlaylistIterator_current(newpos, page)]

SpotifyPlaylistIterator_next ==
    /\ variant = "_SpotifyPlaylistIterator"
    /\ calls < MaxCalls
    /\ LET r == SpotifyPlaylistIterator_step(total, playlist_current_pos, playlist_current_tracks)
       IN  /\ playlist_current_pos' = r.pos
           /\ playlist_current_tracks' = r.tracks
           /\ requests' = requests \o r.request
           /\ result' = IF r.stop THEN "StopIteration" ELSE "value"
           /\ produced' = IF r.stop THEN produced ELSE Append(produced, r.value)
           /\ stops' = IF r.stop THEN stops + 1 ELSE stops
    /\ calls' = calls + 1
    /\ UNCHANGED <<variant, total>>

----------------------------------------------------------------------------
(* Python strings, as sequences of one-character strings *)

DigitChars == <<"0", "1", "2", "3", "4", "5", "6", "7", "8", "9">>

IsDigit(c) == \E d \in 1..10 : DigitChars[d] = c

DigitValue(c) == (CHOOSE d \in 1..10 : DigitChars[d] = c) - 1

RECURSIVE DecimalValue(_)
DecimalValue(s) ==
    IF s = <<>> THEN 0
    ELSE 10 * DecimalValue(SubSeq(s, 1, Len(s) - 1)) + DigitValue(s[Len(s)])

\* int(s) on a string: the decimal value of a non-empty string of digits,
\* ValueError on anything else the model's strings can hold.
py_int(s) ==
    IF Len(s) > 0 /\ \A i \in 1..Len(s) : IsDigit(s[i])
    THEN [ok |-> TRUE, value |-> DecimalValue(s)]
    ELSE [ok |-> FALSE, value |-> 0]

\* s.split(sep) for a one-character separator
RECURSIVE py_split(_, _)
py_split(s, sep) ==
    IF \E i \in 1..Len(s) : s[i] = sep
    THEN LET i == CHOOSE i \in 1..Len(s) : s[i] = sep /\ \A j \in 1..(i - 1) : s[j] # sep
         IN  <<SubSeq(s, 1, i - 1)>> \o py_split(SubSeq(s, i + 1, Len(s)), sep)
    ELSE <<s>>

\* n written in decimal, zero-padded to width characters
RECURSIVE Decimal(_, _)
Decimal(n, width) ==
    IF width = 0 THEN <<>>
    ELSE Decimal(n \div 10, width - 1) \o <<DigitChars[(n % 10) + 1]>>

----------------------------------------------------------------------------
(* datetime.date *)

IsLeap(y) == (y % 4 = 0 /\ y % 100 # 0) \/ y % 400 = 0

DaysInMonth(y, m) ==
    IF m = 2 THEN (IF IsLeap(y) THEN 29 ELSE 28)
    ELSE IF m \in {4, 6, 9, 11} THEN 30 ELSE 31

None == [kind |-> "None"]

Raised(type, what) == [kind |-> "raised", type |-> type, what |-> what]

\* datetime.date(year, month, day): ValueError outside the calendar
py_date(y, m, d) ==
    IF /\ y \in 1..9999
       /\ m \in 1..12
       /\ d \in 1..DaysInMonth(y, m)
    THEN [kind |-> "date", year |-> y, month |-> m, day |-> d]
    ELSE Raised("ValueError", "date")

\* datetime.date.fromisoformat on a "YYYY-MM-DD" string
py_fromisoformat(s) ==
    IF /\ Len(s) = 10
       /\ s[5] = "-"
       /\ s[8] = "-"
       /\ py_int(SubSeq(s, 1, 4)).ok
       /\ py_int(SubSeq(s, 6, 7)).ok
       /\ py_int(SubSeq(s, 9, 10)).ok
    THEN py_date(py_int(SubSeq(s, 1, 4)).value,
                 py_int(SubSeq(s, 6, 7)).value,
                 py_int(SubSeq(s, 9, 10)).value)
    ELSE Raised("ValueError", "isoformat")

\* date(int(a), int(b) + db, 1) and the like: int() fails first
DateOfStrings(ys, ms, dm) ==
    IF py_int(ys).ok /\ py_int(ms).ok
    THEN py_date(py_int(ys).value, py_int(ms).value + dm, 1)
    ELSE Raised("ValueError", "int")

----------------------------------------------------------------------------
(* Raw track records of the catalog service *)

Years == FirstYear..(FirstYear + NumYears - 1)

\* release_date strings the service sends for each precision
DayString(y, m, d) == Decimal(y, 4) \o <<"-">> \o Decimal(m, 2) \o <<"-">> \o Decimal(d, 2)

MonthString(y, m) == Decimal(y, 4) \o <<"-">> \o Decimal(m, 2)

YearString(y) == Decimal(y, 4)

Image(url, height) == [url |-> url, height |-> height]

\* album["images"] lists: none, three sizes, two of equal height, a zero height
ImageLists ==
    { <<>>,
      <<Image("u1", 64), Image("u2", 300), Image("u3", 150)>>,
      <<Image("u1", 300), Image("u2", 300)>>,
      <<Image("u1", 0)>> }

RawTrack(precision, date, images) ==
    [release_date_precision |-> precision, release_date |-> date, images |-> images]

RawTracks ==
    UNION { { RawTrack("day", DayString(y, m, d), imgs) :
                y \in Years, m \in 1..12, d \in 1..28, imgs \in ImageLists },
            { RawTrack("day", DayString(y, m, DaysInMonth(y, m)), imgs) :
                y \in Years, m \in 1..12, imgs \in ImageLists },
            { RawTrack("month", MonthString(y, m), imgs) :
                y \in Years, m \in 1..12, imgs \in ImageLists },
            { RawTrack("year", YearString(y), imgs) :
                y \in Years, imgs \in ImageLists },
            { RawTrack("None", <<>>, imgs) : imgs \in ImageLists },
            { RawTrack("decade", YearString(y), imgs) :
                y \in Years, imgs \in ImageLists } }

----------------------------------------------------------------------------
(* UnspotifyTrackInfo.__init__ (unspotify.py) *)

\* the scan `if image["height"] > max_album_image_size`; "unset" when no
\* image passes it (the attribute is then never assigned)
RECURSIVE UnspotifyTrackInfo_image_scan(_, _, _)
UnspotifyTrackInfo_image_scan(images, max, url) ==
    IF images = <<>> THEN url
    ELSE IF Head(images).height > max
         THEN UnspotifyTrackInfo_image_scan(Tail(images), Head(images).height, Head(images).url)
         ELSE UnspotifyTrackInfo_image_scan(Tail(images), max, url)

UnspotifyTrackInfo_album_image_url(images) ==
    UnspotifyTrackInfo_image_scan(images, 0, "unset")

\* case "month": date(int(parts[0]), int(parts[1]) + 1, 1)
UnspotifyTrackInfo_month(release_date) ==
    LET release_date_parts == py_split(release_date, "-")
    IN  IF Len(release_date_parts) < 2 THEN Raised("IndexError", "parts")
        ELSE DateOfStrings(release_date_parts[1], release_date_parts[2], 1)

\* match track["album"]["release_date_precision"]
UnspotifyTrackInfo_release_date(precision, release_date) ==
    CASE precision = "day" -> py_fromisoformat(release_date)
      [] precision = "month" -> UnspotifyTrackInfo_month(release_date)
      [] precision = "year" -> DateOfStrings(release_date, <<"1">>, 0)
      [] precision = "None" -> None
      [] OTHER -> Raised("ValueError", precision)

TrackInfo(url, date) ==
    IF date.kind = "raised" THEN date
    ELSE [kind |-> "TrackInfo", album_image_url |-> url, release_date |-> date]

UnspotifyTrackInfo_init ==
    /\ variant = "UnspotifyTrackInfo"
    /\ info.kind = "pending"
    /\ info' = TrackInfo(UnspotifyTrackInfo_album_image_url(track.images),
                         UnspotifyTrackInfo_release_date(track.release_date_precision,
                                                         track.release_date))
    /\ UNCHANGED <<variant, track>>

----------------------------------------------------------------------------
(* _SpotifyPlaylistIterator._construct_track (src/spotify.py) *)

RECURSIVE SpotifyPlaylistIterator_image_scan(_, _, _)
SpotifyPlaylistIterator_image_scan(images, max, url) ==
    IF images = <<>> THEN url
    ELSE IF Head(images).height > max
         THEN SpotifyPlaylistIterator_image_scan(Tail(images), Head(images).height, Head(images).url)
         ELSE SpotifyPlaylistIterator_image_scan(Tail(images), max, url)

\* album_image_url starts as None
SpotifyPlaylistIterator_album_image_url(images) ==
    SpotifyPlaylistIterator_image_scan(images, 0, "None")

SpotifyPlaylistIterator_month(release_date) ==
    LET release_date_parts == py_split(release_date, "-")
    IN  IF Len(release_date_parts) < 2 THEN Raised("IndexError", "parts")
        ELSE DateOfStrings(release_date_parts[1], release_date_parts[2], 1)

SpotifyPlaylistIterator_release_date(precision, release_date) ==
    CASE precision = "day" -> py_fromisoformat(release_date)
      [] precision = "month" -> SpotifyPlaylistIterator_month(release_date)
      [] precision = "year" -> DateOfStrings(release_date, <<"1">>, 0)
      [] precision = "None" -> None
      [] OTHER -> Raised("ValueError", precision)

SpotifyPlaylistIterator_construct_track ==
    /\ variant = "_SpotifyPlaylistIterator"
    /\ info.kind = "pending"
    /\ info' = TrackInfo(SpotifyPlaylistIterator_album_image_url(track.images),
                         SpotifyPlaylistIterator_release_date(track.release_date_precision,
                                                              track.release_date))
    /\ UNCHANGED <<variant, track>>

----------------------------------------------------------------------------
(* from_url *)

\* "https://open.example.com/playlist/abc123?si=xyz"
ExampleUrl ==
    <<"h", "t", "t", "p", "s", ":", "/", "/", "o", "p", "e", "n">> \o
    <<".", "e", "x", "a", "m", "p", "l", "e", ".", "c", "o", "m">> \o
    <<"/", "p", "l", "a", "y", "l", "i", "s", "t", "/", "a", "b">> \o
    <<"c", "1", "2", "3", "?", "s", "i", "=", "x", "y", "z">>

\* "abc123"
ExampleId == <<"a", "b", "c", "1", "2", "3">>

UrlChars == {"/", "?", "&", "a", "b"}

RECURSIVE StringsUpTo(_)
StringsUpTo(n) ==
    IF n = 0 THEN {<<>>}
    ELSE LET shorter == StringsUpTo(n - 1)
         IN  shorter \cup {Append(u, c) : u \in shorter, c \in UrlChars}

Urls == StringsUpTo(MaxUrlLen) \cup {ExampleUrl}

\* s[-1]
Last(s) == s[Len(s)]

\* UnspotifyPlaylist.from_url: playlist_url.split("/")[-1].split("&")[0]
UnspotifyPlaylist_id_of_url(url) == py_split(Last(py_split(url, "/")), "&")[1]

\* cls(sp, id): UnspotifyPlaylist.__init__ starts the iteration state afresh
UnspotifyPlaylist_from_url ==
    /\ variant = "UnspotifyPlaylist"
    /\ playlist_id.kind = "pending"
    /\ playlist_id' = [kind |-> "id", value |-> UnspotifyPlaylist_id_of_url(playlist_url)]
    /\ playlist_current_pos' = 0
    /\ playlist_current_tracks' = <<>>
    /\ UNCHANGED <<variant, playlist_url>>

\* SpotifyPlaylist.from_url: playlist_url.split("/")[-1].split("?")[0]
SpotifyPlaylist_id_of_url(url) == py_split(Last(py_split(url, "/")), "?")[1]

\* cls(id): SpotifyPlaylist.__init__ keeps the identifier
SpotifyPlaylist_from_url ==
    /\ variant = "SpotifyPlaylist"
    /\ playlist_id.kind = "pending"
    /\ playlist_id' = [kind |-> "id", value |-> SpotifyPlaylist_id_of_url(playlist_url)]
    /\ UNCHANGED <<variant, playlist_url, playlist_current_pos, playlist_current_tracks>>

----------------------------------------------------------------------------
(* UnspotifyYTDownloader (unspotify.py) *)

\* list(playlist) on an UnspotifyPlaylist of n items: __next__ until the
\* first StopIteration.  A track is identified with its item index, which
\* also stands for its name.
RECURSIVE UnspotifyPlaylist_collect(_, _, _, _)
UnspotifyPlaylist_collect(n, pos, tracks, acc) ==
    LET r == UnspotifyPlaylist_step(n, pos, tracks)
    IN  IF r.stop THEN acc
        ELSE UnspotifyPlaylist_collect(n, r.pos, r.tracks, Append(acc, r.value))

UnspotifyPlaylist_list(n) == UnspotifyPlaylist_collect(n, 0, <<>>, <<>>)

\* the path of the file the backend wrote for query q of the d-th download
Path(d, q) == <<d, q>>

\* a file as the backend leaves it: named by the video title (renamed_to
\* empty), no tags saved (tags empty)
NewFile == [renamed_to |-> <<>>, tags |-> <<>>]

\* download_playlist up to the point where ydl.download is running: the list
\* is materialized and one query per track is submitted.  The cursor is not
\* touched.
UnspotifyYTDownloader_download_playlist ==
    /\ dl_pc \in {"idle", "raised"}
    /\ Len(lists) < MaxDownloads
    /\ \E n \in 0..MaxItems :
          LET tracks == UnspotifyPlaylist_list(n)
          IN  /\ Len(threads) + Len(tracks) <= MaxThreads
              /\ dl_current_tracks' = tracks
              /\ queue' = 1..Len(tracks)
              /\ lists' = Append(lists, tracks)
    /\ dl_pc' = "downloading"
    /\ UNCHANGED <<dl_current_pos, progress, threads, files, delivered, unanswered>>

\* `self._current_tracks[self._current_pos]` raises IndexError here
UnspotifyYTDownloader_index_error(pos, tracks) == pos >= Len(tracks)

\* the progress line "(i/n) Downloaded <name>..."
UnspotifyYTDownloader_progress_line(pos, tracks) ==
    [i |-> pos + 1, n |-> Len(tracks), name |-> tracks[pos + 1]]

\* args=(path, self._current_tracks[self._current_pos]), evaluated when the
\* Thread object is built
UnspotifyYTDownloader_thread_args(path, pos, tracks) ==
    [path |-> path, info |-> tracks[pos + 1]]

UnspotifyYTDownloader_advance_mut(pos) == pos + 2

\* `self._current_pos += 1`
UnspotifyYTDownloader_advance(pos) == pos + 1

\* A background unit: its arguments, where it stands in _set_track_metadata,
\* and for the record the download and cursor value it was spawned at,
\* whether some unit had already failed by then, and the cursor value at the
\* moment it saved its tags (-1 before).
Thread(args, d, pos, after) ==
    [path |-> args.path, info |-> args.info, pc |-> "open", status |-> "running",
     download |-> d, slot |-> pos, after_failure |-> after, cursor_at_save |-> -1]

\* The backend finishes the file of query q and runs the post hook
\* _track_downloaded(path) inline.
UnspotifyYTDownloader_track_downloaded(q) ==
    /\ dl_pc = "downloading"
    /\ q \in queue
    /\ LET path == Path(Len(lists), q)
       IN  /\ files' = (path :> NewFile) @@ files
           /\ delivered' = Append(delivered, path)
           /\ IF UnspotifyYTDownloader_index_error(dl_current_pos, dl_current_tracks)
              THEN /\ dl_pc' = "raised"
                   /\ queue' = {}
                   /\ unanswered' = (unanswered \/ queue # {q})
                   /\ UNCHANGED <<dl_current_pos, progress, threads>>
              ELSE /\ progress' = Append(progress,
                          UnspotifyYTDownloader_progress_line(dl_current_pos, dl_current_tracks))
                   /\ threads' = Append(threads,
                          Thread(UnspotifyYTDownloader_thread_args(path, dl_current_pos,
                                                                   dl_current_tracks),
                                 Len(lists), dl_current_pos,
                                 \E t \in 1..Len(threads) : threads[t].status = "failed"))
                   /\ dl_current_pos' = UnspotifyYTDownloader_advance(dl_current_pos)
                   /\ queue' = queue \ {q}
                   /\ UNCHANGED <<dl_pc, unanswered>>
    /\ UNCHANGED <<dl_current_tracks, lists>>

\* The backend ends query q without a file (the search found nothing): no
\* callback runs for it.
Backend_no_file(q) ==
    /\ dl_pc = "downloading"
    /\ q \in queue
    /\ queue' = queue \ {q}
    /\ unanswered' = TRUE
    /\ UNCHANGED <<dl_current_pos, dl_current_tracks, dl_pc, progress, threads,
                   files, delivered, lists>>

\* ydl.download returns and with it download_playlist
UnspotifyYTDownloader_download_returns ==
    /\ dl_pc = "downloading"
    /\ queue = {}
    /\ dl_pc' = "idle"
    /\ UNCHANGED <<dl_current_pos, dl_current_tracks, queue, progress, threads,
                   files, delivered, lists, unanswered>>

----------------------------------------------------------------------------
(* UnspotifyYTDownloader._set_track_metadata, run by each background unit *)

\* the statements of _set_track_metadata that can fail, in order:
\* ID3(path), urlopen(...) with the frames added around it, file.save(),
\* rename(...)
NextPc(pc) ==
    CASE pc = "open" -> "cover"
      [] pc = "cover" -> "save"
      [] pc = "save" -> "rename"
      [] pc = "rename" -> "done"

\* the `info` parameter of the unit: the object passed in args
UnspotifyYTDownloader_info_mut(t) ==
    IF dl_current_pos < Len(dl_current_tracks)
    THEN dl_current_tracks[dl_current_pos + 1]
    ELSE threads[t].info

UnspotifyYTDownloader_info(t) == threads[t].info

\* what one statement does to the unit's file
FileAfter(file, pc, track_info) ==
    CASE pc = "save" -> [file EXCEPT !.tags = <<track_info>>]
      [] pc = "rename" -> [file EXCEPT !.renamed_to = <<track_info>>]
      [] OTHER -> file

\* unit t executes its next statement successfully
UnspotifyYTDownloader_set_track_metadata(t) ==
    /\ t \in 1..Len(threads)
    /\ threads[t].status = "running"
    /\ LET pc == threads[t].pc
           next == NextPc(pc)
       IN  /\ threads' = [threads EXCEPT ![t].pc = next,
                                         ![t].status = IF next = "done" THEN "done"
                                                       ELSE "running",
                                         ![t].cursor_at_save =
                                             IF pc = "save" THEN dl_current_pos ELSE @]
           /\ files' = [files EXCEPT ![threads[t].path] =
                            FileAfter(@, pc, UnspotifyYTDownloader_info(t))]
    /\ UNCHANGED <<dl_current_pos, dl_current_tracks, dl_pc, queue, progress,
                   delivered, lists, unanswered>>

UnspotifyYTDownloader_set_track_metadata_raises_mut(t) ==
    /\ t \in 1..Len(threads)
    /\ threads[t].status = "running"
    /\ threads' = [threads EXCEPT ![t].status = "failed"]
    /\ dl_pc' = "raised"
    /\ queue' = {}
    /\ UNCHANGED <<dl_current_pos, dl_current_tracks, progress, files,
                   delivered, lists, unanswered>>

\* the next statement of unit t raises: nothing catches it, the thread ends
UnspotifyYTDownloader_set_track_metadata_raises(t) ==
    /\ t \in 1..Len(threads)
    /\ threads[t].status = "running"
    /\ threads' = [threads EXCEPT ![t].status = "failed"]
    /\ UNCHANGED <<dl_current_pos, dl_current_tracks, dl_pc, queue, progress,
                   files, delivered, lists, unanswered>>

----------------------------------------------------------------------------
(* Iteration of a playlist of any length up to MaxTracks *)

\* UnspotifyYTDownloader.__init__
UnspotifyYTDownloader_init ==
    /\ dl_current_pos = 0
    /\ dl_current_tracks = <<>>
    /\ dl_pc = "idle"
    /\ queue = {}
    /\ progress = <<>>
    /\ threads = <<>>
    /\ files = <<>>
    /\ delivered = <<>>
    /\ lists = <<>>
    /\ unanswered = FALSE

UrlIdle ==
    /\ playlist_url = <<>>
    /\ playlist_id = [kind |-> "idle"]

NormIdle ==
    /\ track = RawTrack("None", <<>>, <<>>)
    /\ info = [kind |-> "idle"]

InitIter ==
    /\ NormIdle
    /\ UrlIdle
    /\ UnspotifyYTDownloader_init
    /\ variant \in {"UnspotifyPlaylist", "_SpotifyPlaylistIterator"}
    /\ total \in 0..MaxTracks
    /\ playlist_current_pos = 0
    /\ playlist_current_tracks = <<>>
    /\ result = "none"
    /\ produced = <<>>
    /\ requests = <<>>
    /\ stops = 0
    /\ calls = 0

NextIter ==
    \/ UnspotifyPlaylist_next /\ UNCHANGED <<normVars, urlVars, dlVars>>
    \/ SpotifyPlaylistIterator_next /\ UNCHANGED <<normVars, urlVars, dlVars>>

SpecIter == InitIter /\ [][NextIter]_vars

----------------------------------------------------------------------------
(* Normalization of one raw track record *)

IterIdle ==
    /\ total = 0
    /\ playlist_current_pos = 0
    /\ playlist_current_tracks = <<>>
    /\ result = "none"
    /\ produced = <<>>
    /\ requests = <<>>
    /\ stops = 0
    /\ calls = 0

iterState == <<total, playlist_current_pos, playlist_current_tracks,
               result, produced, requests, stops, calls>>

InitNorm ==
    /\ IterIdle
    /\ UrlIdle
    /\ UnspotifyYTDownloader_init
    /\ variant \in {"UnspotifyTrackInfo", "_SpotifyPlaylistIterator"}
    /\ track \in RawTracks
    /\ info = [kind |-> "pending"]

NextNorm ==
    \/ UnspotifyTrackInfo_init /\ UNCHANGED <<iterState, urlVars, dlVars>>
    \/ SpotifyPlaylistIterator_construct_track /\ UNCHANGED <<iterState, urlVars, dlVars>>

SpecNorm == InitNorm /\ [][NextNorm]_vars

----------------------------------------------------------------------------
(* Construction of a playlist from a URL *)

InitUrl ==
    /\ IterIdle
    /\ NormIdle
    /\ UnspotifyYTDownloader_init
    /\ variant \in {"UnspotifyPlaylist", "SpotifyPlaylist"}
    /\ playlist_url \in Urls
    /\ playlist_id = [kind |-> "pending"]

NextUrl ==
    \/ UnspotifyPlaylist_from_url
            /\ UNCHANGED <<total, result, produced, requests, stops, calls, normVars, dlVars>>
    \/ SpotifyPlaylist_from_url
            /\ UNCHANGED <<total, result, produced, requests, stops, calls, normVars, dlVars>>

SpecUrl == InitUrl /\ [][NextUrl]_vars

----------------------------------------------------------------------------
(* Downloads on one downloader object *)

Init ==
    /\ IterIdle
    /\ NormIdle
    /\ UrlIdle
    /\ variant = "UnspotifyYTDownloader"
    /\ UnspotifyYTDownloader_init

Next ==
    \/ UnspotifyYTDownloader_download_playlist
            /\ UNCHANGED <<iterVars, normVars, urlVars>>
    \/ \E q \in queue :
            UnspotifyYTDownloader_track_downloaded(q)
                /\ UNCHANGED <<iterVars, normVars, urlVars>>
    \/ \E q \in queue :
            Backend_no_file(q) /\ UNCHANGED <<iterVars, normVars, urlVars>>
    \/ UnspotifyYTDownloader_download_returns
            /\ UNCHANGED <<iterVars, normVars, urlVars>>
    \/ \E t \in 1..Len(threads) :
            UnspotifyYTDownloader_set_track_metadata(t)
                /\ UNCHANGED <<iterVars, normVars, urlVars>>
    \/ \E t \in 1..Len(threads) :
            UnspotifyYTDownloader_set_track_metadata_raises(t)
                /\ UNCHANGED <<iterVars, normVars, urlVars>>

Spec == Init /\ [][Next]_vars

----------------------------------------------------------------------------
(* Properties of playlist iteration *)

\* The state right after the first StopIteration: what list(playlist) and
\* fetch_tracks have collected when they return.
AtFirstStop == stops = 1 /\ result = "StopIteration"

\* C1: iterating a playlist of N items up to its first end-of-sequence signal
\* produces exactly N elements, one for each item of the playlist (250 items
\* give 250 elements).
C1_ProducesEveryItem ==
    AtFirstStop =>
        /\ Len(produced) = total
        /\ \A item \in 0..(total - 1) : \E k \in 1..Len(produced) : produced[k] = item

\* C2: the k-th element produced is built from the k-th item of the remote
\* playlist (item index k-1), so the elements come in catalog order.
C2_CatalogOrder ==
    \A k \in 1..Len(produced) : produced[k] = k - 1

\* C3: a __next__ call issues a page request exactly when the position before
\* the call is a multiple of 100, and the offset requested is that position;
\* up to the first end-of-sequence the offsets requested are 0, 100, 200, ...
\* in increasing order without repetition, and a playlist of 250 tracks has
\* caused exactly the three requests 0, 100, 200.
C3_PageRequests ==
    /\ [][calls' = calls + 1 =>
            /\ (requests' # requests) <=> (playlist_current_pos % 100 = 0)
            /\ (playlist_current_pos % 100 = 0) =>
                    requests' = Append(requests, playlist_current_pos)]_vars
    /\ []((stops = 0 \/ AtFirstStop) =>
            \A i \in 1..Len(requests) : requests[i] = 100 * (i - 1))
    /\ []((AtFirstStop /\ total = 250) => requests = <<0, 100, 200>>)

C3_Witness ==
    /\ AtFirstStop
    /\ total = 250
    /\ Len(requests) = 3
    /\ playlist_current_pos = 250

\* C9: once a __next__ call has signalled end-of-sequence, every later call
\* signals end-of-sequence as well and no further element is produced.
C9_EndIsFinal ==
    [][stops >= 1 =>
          /\ produced' = produced
          /\ (calls' = calls + 1 => result' = "StopIteration")]_vars

----------------------------------------------------------------------------
(* Properties of release-date normalization *)

\* the first day of the month that follows month m of year y
FollowingMonth(y, m) ==
    IF m = 12 THEN [kind |-> "date", year |-> y + 1, month |-> 1, day |-> 1]
    ELSE [kind |-> "date", year |-> y, month |-> m + 1, day |-> 1]

\* C4: a record of precision "month" with release date "YYYY-MM", MM in
\* 01..12, is normalized without error to the first day of the month that
\* follows MM, for every month of the year and by both normalizers.
C4_MonthPrecision ==
    \A y \in Years, m \in 1..12 :
        (/\ track.release_date_precision = "month"
         /\ track.release_date = MonthString(y, m)
         /\ info.kind # "pending")
        => (/\ info.kind = "TrackInfo"
            /\ info.release_date = FollowingMonth(y, m))

----------------------------------------------------------------------------
(* Properties of from_url *)

\* url is <prefix>/<id>?<query> with the "/" at index i and the "?" at index
\* j: <id> is the trailing path segment, not empty and free of delimiters
IsPrefixIdQuery(url, i, j) ==
    /\ i + 1 < j
    /\ url[i] = "/"
    /\ url[j] = "?"
    /\ \A k \in (i + 1)..Len(url) : url[k] # "/"
    /\ \A k \in (i + 1)..(j - 1) : url[k] \notin {"?", "&"}

\* C5: from a URL <prefix>/<id>?<query> every from_url passes <id> to the
\* constructor: the trailing path segment cut at the first "?" (abc123 for
\* https://open.example.com/playlist/abc123?si=xyz).
C5_IdFromUrl ==
    playlist_id.kind = "id" =>
        /\ \A i, j \in 1..Len(playlist_url) :
              IsPrefixIdQuery(playlist_url, i, j) =>
                  playlist_id.value = SubSeq(playlist_url, i + 1, j - 1)
        /\ playlist_url = ExampleUrl => playlist_id.value = ExampleId

----------------------------------------------------------------------------
(* Properties of the download driver *)

\* the track at the cursor when unit t was spawned
TrackAtSpawn(t) == lists[threads[t].download][threads[t].slot + 1]

\* C6: during the first download_playlist call of a new downloader the cursor
\* starts at 0, grows by exactly one with every completion callback and never
\* decreases; the k-th callback prints progress index k of n with the name of
\* the k-th track of the list and gives the tag writer that k-th track with
\* the path the callback received, whichever file the backend completed.
C6_CursorFollowsCallbacks ==
    /\ [](Len(lists) = 1 =>
            /\ dl_current_pos = Len(delivered)
            /\ Len(progress) = Len(delivered)
            /\ Len(threads) = Len(delivered)
            /\ \A k \in 1..Len(delivered) :
                  /\ progress[k] = [i |-> k, n |-> Len(dl_current_tracks),
                                    name |-> dl_current_tracks[k]]
                  /\ threads[k].info = dl_current_tracks[k]
                  /\ threads[k].path = delivered[k])
    /\ [][Len(lists') = 1 =>
            /\ dl_current_pos' >= dl_current_pos
            /\ (Len(lists) = 0 => dl_current_pos' = 0)
            /\ (delivered' # delivered => dl_current_pos' = dl_current_pos + 1)]_vars

\* both callbacks of a first download of two tracks have run, the backend
\* having completed the second query first
C6_Witness ==
    /\ Len(lists) = 1
    /\ Len(dl_current_tracks) = 2
    /\ delivered = <<Path(1, 2), Path(1, 1)>>
    /\ dl_current_pos = 2

\* C7: a background unit works on the track that was at the cursor when its
\* callback ran, however later callbacks interleave with it: the track it
\* saves into its file is never the one at a later cursor value, and units
\* spawned by different callbacks of one download have different list slots.
C7_UnitKeepsItsTrack ==
    \A t \in 1..Len(threads) :
        /\ threads[t].info = TrackAtSpawn(t)
        /\ files[threads[t].path].tags \in {<<>>, <<TrackAtSpawn(t)>>}
        /\ files[threads[t].path].renamed_to \in {<<>>, <<TrackAtSpawn(t)>>}
        /\ \A u \in 1..Len(threads) :
              (u # t /\ threads[u].download = threads[t].download)
                  => threads[u].slot # threads[t].slot

\* a unit saved its tags after a later callback had moved the cursor on to
\* another track of the list
C7_Witness ==
    \E t \in 1..Len(threads) :
        /\ threads[t].cursor_at_save > threads[t].slot
        /\ threads[t].cursor_at_save < Len(dl_current_tracks)
        /\ threads[t].download = Len(lists)
        /\ files[threads[t].path].tags = <<TrackAtSpawn(t)>>

\* C8: a failure inside a background unit ends that unit alone: the step
\* leaves the cursor, the track list, the running download, the other units
\* and the files as they are; the failed unit never runs again; and its file
\* keeps the name the backend gave it.
C8_FailureIsLocal ==
    /\ [][\A t \in 1..Len(threads) :
            (threads[t].status = "running" /\ threads'[t].status = "failed") =>
                /\ dl_current_pos' = dl_current_pos
                /\ dl_current_tracks' = dl_current_tracks
                /\ dl_pc' = dl_pc
                /\ queue' = queue
                /\ progress' = progress
                /\ files' = files
                /\ Len(threads') = Len(threads)
                /\ \A u \in 1..Len(threads) : u # t => threads'[u] = threads[u]]_vars
    /\ [][\A t \in 1..Len(threads) :
            threads[t].status = "failed" => threads'[t] = threads[t]]_vars
    /\ [](\A t \in 1..Len(threads) :
            threads[t].status = "failed" => files[threads[t].path].renamed_to = <<>>)

\* one unit failed at its rename step, and a unit spawned by a later callback
\* ran to its end
C8_Witness ==
    \E t, u \in 1..Len(threads) :
        /\ threads[t].status = "failed"
        /\ threads[t].pc = "rename"
        /\ files[threads[t].path].tags = <<threads[t].info>>
        /\ files[threads[t].path].renamed_to = <<>>
        /\ t < u
        /\ threads[u].after_failure
        /\ threads[u].status = "done"

\* C10: whenever the completion callback is about to run, in a history where
\* every submitted query has had exactly one callback, the cursor indexes a
\* slot of the current list, and the first callback of a download_playlist
\* call finds the cursor at the first track of its list.
C10_CursorInRange ==
    (dl_pc = "downloading" /\ queue # {} /\ ~unanswered) =>
        /\ dl_current_pos < Len(dl_current_tracks)
        /\ (Cardinality(queue) = Len(dl_current_tracks) => dl_current_pos = 0)

====
